---------------------------- MODULE Spec2Model ----------------------------
(***************************************************************************)
(* Model of the rotating RSA key manager (KeyRotationManager) and of the   *)
(* token codec (RotationJWT) of                                            *)
(* src/app/application/services/key_creator_rotor.py.                      *)
(*                                                                         *)
(* A kid is a sequence of text atoms (<<"v","1">> is "v1"), so that the    *)
(* upper/lower-casing and the '-' -> '_' replacement of the environment    *)
(* naming scheme are computed, not assumed.  The empty sequence stands for *)
(* None and for "", which Python's truth tests treat alike.                *)
(*                                                                         *)
(* A key pair is identified by the number of the generation that made it:  *)
(* generation g yields the private PEM g and the public PEM g, and a       *)
(* signature made with private PEM g verifies under public PEM p exactly   *)
(* when p = g.  0 stands for an absent PEM / an absent file.               *)
(***************************************************************************)
EXTENDS Integers, Sequences, FiniteSets, TLC

\* ------------------------------------------------------------- bounds
MaxGen == 2
MaxTime == 2
MaxTokens == 1
MaxTtl == 1
DstShift == 2

\* --------------------------------------------------------------- kids
NoKid == <<>>
KV1 == <<"v", "1">>
KUp == <<"V", "1">>
KDash == <<"k", "-", "1">>
KV2 == <<"v", "2">>

ArgKids == {KV1, KUp}

\* str(int) of a clock value, as strftime renders the time stamp
TsStr(t) == <<"0", "1", "2", "3", "4", "5", "6", "7", "8", "9">>[t + 1]

\* rotate_keys: new_kid = f"key-{timestamp}"
SynthKid(t) == <<"key", "-", TsStr(t)>>

FileKids == ArgKids \cup {SynthKid(t) : t \in 0..MaxTime}

\* str.upper() / str.lower() / str.replace('-', '_') on one atom
UpperAtom(a) ==
    CASE a = "v" -> "V"
      [] a = "k" -> "K"
      [] a = "key" -> "KEY"
      [] OTHER -> a

LowerAtom(a) ==
    CASE a = "V" -> "v"
      [] a = "K" -> "k"
      [] a = "KEY" -> "key"
      [] OTHER -> a

DashToUnderscore(a) == IF a = "-" THEN "_" ELSE a

\* export_to_env: kid_upper = k.upper().replace('-', '_')
KidUpper(k) == [i \in DOMAIN k |-> DashToUnderscore(UpperAtom(k[i]))]

\* _load_keys_from_env: kid = match.group('kid').lower()
KidLower(k) == [i \in DOMAIN k |-> LowerAtom(k[i])]

\* ------------------------------------------------------------- Base64
EncodePem(pem) == <<"b64", pem>>

DecodePem(v) == v[2]

\* a raw PEM text is no valid Base64 (it holds '-' and spaces)
IsBase64(v) == v[1] = "b64"


\* ------------------------------------------------------------- state
VARIABLES
    backend,    \* storage_backend: "filesystem" | "environment"
    privFile,   \* keys_dir: kid -> content of {kid}_private.pem (0: no file)
    pubFile,    \* keys_dir: kid -> content of {kid}_public.pem (0: no file)
    pubCtime,   \* keys_dir: kid -> os.path.getctime of {kid}_public.pem
    dirOrder,   \* keys_dir: the kids with a public file, in os.listdir order
    env,        \* os.environ: the JWT_KEY_* variables, in iteration order
    keys,       \* self._keys, a dict in insertion order: sequence of records
    activeKid,  \* self._active_kid (NoKid: None)
    now,        \* the clock, in seconds
    nextGen,    \* number of the next key pair rsa.generate_private_key makes
    tokens,     \* the tokens create_token has returned
    lastOp,     \* the last call made on the manager or the codec, with its result
    wpc,        \* position of a load_keys() that runs beside a reader
    pending,    \* the records that load_keys() still has to put into self._keys
    pre,        \* self._keys and self._active_kid as that load_keys() found them
    post,       \* self._keys and self._active_kid as that load_keys() leaves them
    obs,        \* self._keys and self._active_kid as a reader saw them last
    thr,        \* the rotate_keys() calls that run in threads: thread -> position
    db,         \* the database: the rows of refresh_tokens and the ids of users
    req         \* the requests to /refresh and /logout: request -> position

vars == <<backend, privFile, pubFile, pubCtime, dirOrder, env, keys, activeKid,
          now, nextGen, tokens, lastOp, wpc, pending, pre, post, obs, thr,
          db, req>>

fsVars == <<privFile, pubFile, pubCtime, dirOrder>>
concVars == <<wpc, pending, pre, post, obs, thr, db, req>>

\* ------------------------------------------------------- dict helpers
RECURSIVE IndexOf(_, _, _)
\* position of the record of kid k in a dict d, from position i on (0: k not in d)
IndexOf(d, k, i) ==
    IF i > Len(d) THEN 0
    ELSE IF d[i].kid = k THEN i
    ELSE IndexOf(d, k, i + 1)

HasKid(d, k) == IndexOf(d, k, 1) # 0

Get(d, k) == d[IndexOf(d, k, 1)]

KidsOf(d) == {d[i].kid : i \in DOMAIN d}

\* datetime comparison; a created_at is <<seconds, microseconds>>
Later(a, b) == a[1] > b[1] \/ (a[1] = b[1] /\ a[2] > b[2])

\* ------------------------------------------------------------ loading
\* a loader that keeps only the kids that still have a private file
LoadOnlySigningKeys(order, priv, pub, ctime) ==
    LET signing == SelectSeq(order, LAMBDA k : priv[k] # 0)
    IN [i \in 1..Len(signing) |->
           [kid |-> signing[i],
            public |-> pub[signing[i]],
            private |-> priv[signing[i]],
            created_at |-> <<ctime[signing[i]], 0>>,
            source |-> "filesystem"]]

\* _load_keys_from_filesystem: one record per *_public.pem, in listdir order
LoadKeysFromFilesystem(order, priv, pub, ctime) ==
    [i \in 1..Len(order) |->
        [kid |-> order[i],
         public |-> pub[order[i]],
         private |-> priv[order[i]],
         created_at |-> <<ctime[order[i]], 0>>,
         source |-> "filesystem"]]

\* the PEM a variable yields: decoded when flagged _B64 or detected as Base64
VarPem(v) == IF v.b64 \/ IsBase64(v.value) THEN DecodePem(v.value) ELSE v.value[2]

RECURSIVE KidsData(_, _, _)
\* _load_keys_from_env, lines 151-177: the variables grouped by lower-cased kid
KidsData(e, i, acc) ==
    IF i > Len(e) THEN acc
    ELSE LET kid == KidLower(e[i].kid)
             at == IndexOf(acc, kid, 1)
             fresh == [kid |-> kid, public |-> 0, private |-> 0]
             grown == IF at = 0 THEN Append(acc, fresh) ELSE acc
             j == IF at = 0 THEN Len(grown) ELSE at
             set == IF e[i].type = "PUBLIC"
                    THEN [grown EXCEPT ![j].public = VarPem(e[i])]
                    ELSE [grown EXCEPT ![j].private = VarPem(e[i])]
         IN KidsData(e, i + 1, set)

\* the groups that have a "public" entry
WithPublic(kd) == SelectSeq(kd, LAMBDA r : r.public # 0)

\* number of clock advances seen between the first and the i-th utcnow() call
Micro(adv, i) == Cardinality({j \in 2..i : adv[j]})

\* _load_keys_from_env, lines 180-188; adv[i] says whether datetime.utcnow()
\* advanced between the records i-1 and i (it has microsecond resolution)
LoadKeysFromEnv(e, t, adv) ==
    LET kd == WithPublic(KidsData(e, 1, <<>>))
    IN [i \in 1..Len(kd) |->
           [kid |-> kd[i].kid,
            public |-> kd[i].public,
            private |-> kd[i].private,
            created_at |-> <<t, Micro(adv, i)>>,
            source |-> "environment"]]

EnvRecordCount(e) == Len(WithPublic(KidsData(e, 1, <<>>)))

\* load_keys, lines 107-110: the records with private material
ActiveKeys(d) == SelectSeq(d, LAMBDA r : r.private # 0)

RECURSIVE MaxByCreatedAt(_, _, _)
\* max(active_keys, key=created_at): the first of the maximal ones
MaxByCreatedAt(a, i, best) ==
    IF i > Len(a) THEN a[best].kid
    ELSE IF Later(a[i].created_at, a[best].created_at)
         THEN MaxByCreatedAt(a, i + 1, i)
         ELSE MaxByCreatedAt(a, i + 1, best)

\* load_keys, lines 111-115: self._active_kid is assigned only if active_keys
SelectActive(d, old) ==
    IF Len(ActiveKeys(d)) > 0 THEN MaxByCreatedAt(ActiveKeys(d), 1, 1) ELSE old

\* the dicts load_keys() can leave in self._keys for a backend content
Loaded(b, order, priv, pub, ctime, e, t) ==
    IF b = "environment"
    THEN {LoadKeysFromEnv(e, t, adv) : adv \in [1..EnvRecordCount(e) -> BOOLEAN]}
    ELSE {LoadKeysFromFilesystem(order, priv, pub, ctime)}

\* ------------------------------------------------------------- export
\* result[name] = value on a dict in insertion order
PutVar(acc, v) ==
    LET same == {i \in DOMAIN acc : acc[i].kid = v.kid /\ acc[i].type = v.type
                                     /\ acc[i].b64 = v.b64}
    IN IF same = {} THEN Append(acc, v)
       ELSE [i \in DOMAIN acc |-> IF i \in same THEN v ELSE acc[i]]

EnvVar(kid, type, pem) ==
    [kid |-> KidUpper(kid), type |-> type, b64 |-> TRUE, value |-> EncodePem(pem)]

RECURSIVE ExportKids(_, _, _, _)
\* export_to_env, lines 206-214
ExportKids(d, ks, i, acc) ==
    IF i > Len(ks) THEN acc
    ELSE IF ~HasKid(d, ks[i]) THEN ExportKids(d, ks, i + 1, acc)
    ELSE LET data == Get(d, ks[i])
             withPriv == IF data.private # 0
                         THEN PutVar(acc, EnvVar(ks[i], "PRIVATE", data.private))
                         ELSE acc
         IN ExportKids(d, ks, i + 1,
                       PutVar(withPriv, EnvVar(ks[i], "PUBLIC", data.public)))

\* export_to_env(kid): the variables, in the order they are emitted
ExportToEnv(d, kid) ==
    ExportKids(d, IF kid # NoKid THEN <<kid>> ELSE [i \in DOMAIN d |-> d[i].kid],
               1, <<>>)

\* --------------------------------------------------------- the codec
\* get_active_key
GetActiveKey(d, active) ==
    IF active = NoKid
    THEN [status |-> "NoActiveKey", kid |-> NoKid, private |-> 0, public |-> 0]
    ELSE IF ~HasKid(d, active)
    THEN [status |-> "KeyError", kid |-> NoKid, private |-> 0, public |-> 0]
    ELSE IF Get(d, active).private = 0
    THEN [status |-> "PrivateKeyUnavailable", kid |-> NoKid, private |-> 0,
          public |-> 0]
    ELSE [status |-> "ok", kid |-> active, private |-> Get(d, active).private,
          public |-> Get(d, active).public]

\* get_public_keys: kid -> public PEM, as a dict in insertion order
GetPublicKeys(d) == [i \in DOMAIN d |-> [kid |-> d[i].kid, public |-> d[i].public]]

\* get_jwks, lines 282-297: the JWK of a record; the modulus stands for the
\* key pair the public PEM belongs to, the exponent is the one of line 65
Jwk(r) ==
    [kty |-> "RSA", kid |-> r.kid, use |-> "sig", alg |-> "RS256",
     n |-> r.public, e |-> 65537]

\* a JWKS of the signing keys only
GetJwksSigningOnly(d) ==
    LET s == SelectSeq(d, LAMBDA r : r.private # 0)
    IN [i \in DOMAIN s |-> Jwk(s[i])]

\* get_jwks: one JWK for each record of self._keys, in the dict's order
GetJwks(d) == [i \in DOMAIN d |-> Jwk(d[i])]

\* the claim sets handed to create_token; the second brings time claims of its own
ClaimSets ==
    {[sub |-> "u1", type |-> "access"],
     [sub |-> "u1", type |-> "refresh", iat |-> 9, nbf |-> 9, exp |-> 0]}

TimeClaims == {"iat", "nbf", "exp"}

\* The local time zone of the host: at epoch second `at` the wall clock is
\* moved by `shift` seconds.  Utc has no clock change; in FallBack the clock
\* is set back by DstShift (the end of daylight saving time).
Utc == [at |-> 0, shift |-> 0]
FallBack == [at |-> MaxTime, shift |-> 0 - DstShift]
Zones == {Utc, FallBack}

UtcOffset(zone, u) == IF u < zone.at THEN 0 ELSE zone.shift

\* datetime.now(), line 308: the naive wall-clock reading at epoch second u
Wall(zone, u) == u + UtcOffset(zone, u)

\* the fold attribute of datetime.now(): 1 in the second passage of a wall
\* time that the clock shows twice
Epochs == (0 - DstShift)..(MaxTime + MaxTtl + DstShift)

Fold(zone, u) ==
    IF \E v \in Epochs : v < u /\ Wall(zone, v) = Wall(zone, u) THEN 1 ELSE 0

\* naive datetime.timestamp(), lines 310-312: the epoch second of wall time
\* w; fold chooses between the two passages of a repeated wall time, and a
\* wall time the clock skips is read with the offset before (fold 0) or
\* after (fold 1) the change
Timestamp(zone, w, fold) ==
    LET sols == {u \in Epochs : Wall(zone, u) = w}
    IN IF sols = {}
       THEN IF fold = 0 THEN w ELSE w - zone.shift
       ELSE IF fold = 0
            THEN CHOOSE u \in sols : \A v \in sols : u <= v
            ELSE CHOOSE u \in sols : \A v \in sols : v <= u

\* now + timedelta(seconds=expires_in), line 311: wall-clock arithmetic, the
\* sum has fold 0
ExpOf(zone, t, ttl) == Timestamp(zone, Wall(zone, t) + ttl, 0)

IatOf(zone, t) == Timestamp(zone, Wall(zone, t), Fold(zone, t))

\* a merge in which the caller's own iat, nbf and exp win
WithTimesCallerWins(claims, t, ttl, zone) ==
    [n \in DOMAIN claims \cup TimeClaims |->
        IF n \in DOMAIN claims THEN claims[n]
        ELSE IF n = "exp" THEN ExpOf(zone, t, ttl)
        ELSE IatOf(zone, t)]

\* create_token, lines 308-313: payload.update({iat, exp, nbf})
WithTimes(claims, t, ttl, zone) ==
    [n \in DOMAIN claims \cup TimeClaims |->
        IF n = "exp" THEN ExpOf(zone, t, ttl)
        ELSE IF n \in {"iat", "nbf"} THEN IatOf(zone, t)
        ELSE claims[n]]

\* jwt.encode(payload, private_key, headers={kid, alg, typ})
Encode(payload, private, kid) ==
    [kid |-> kid, alg |-> "RS256", typ |-> "JWT", signer |-> private,
     payload |-> payload, malformed |-> FALSE]

NoToken ==
    [kid |-> NoKid, alg |-> "RS256", typ |-> "JWT", signer |-> 0,
     payload |-> [sub |-> "none"], malformed |-> TRUE]

\* create_token
CreateToken(d, active, claims, ttl, t, zone) ==
    LET ak == GetActiveKey(d, active)
    IN IF ak.status # "ok" THEN [status |-> ak.status, token |-> NoToken]
       ELSE [status |-> "ok",
             token |-> Encode(WithTimes(claims, t, ttl, zone), ak.private, ak.kid)]

Failure(why) == [status |-> why, claims |-> [sub |-> "none"]]

\* jwt.decode: signature made by the private key that pairs with the public PEM
SignatureValid(tok, public) == tok.signer # 0 /\ tok.signer = public

\* jwt.decode, verify_nbf: rejected when nbf > now (no leeway)
NotYetValid(payload, t) == "nbf" \in DOMAIN payload /\ payload["nbf"] > t

\* an expiry check that already rejects at now = exp
ExpiredAtExp(payload, t) == "exp" \in DOMAIN payload /\ payload["exp"] <= t

\* jwt.decode, verify_exp: rejected when exp < now (no leeway)
Expired(payload, t) == "exp" \in DOMAIN payload /\ payload["exp"] < t

\* a verifier that ignores the header's kid and tries every public key it has
VerifyWithAnyKey(tok, d, t) ==
    IF tok.malformed THEN Failure("Malformed")
    ELSE IF ~\E i \in DOMAIN d : SignatureValid(tok, d[i].public)
    THEN Failure("BadSignature")
    ELSE IF NotYetValid(tok.payload, t) THEN Failure("NotYetValid")
    ELSE IF Expired(tok.payload, t) THEN Failure("Expired")
    ELSE [status |-> "ok", claims |-> tok.payload]

\* verify_token
VerifyToken(tok, d, t) ==
    IF tok.malformed THEN Failure("Malformed")
    ELSE IF tok.kid = NoKid THEN Failure("MissingKid")
    ELSE IF ~HasKid(GetPublicKeys(d), tok.kid) THEN Failure("UnknownKid")
    ELSE IF tok.alg # "RS256" THEN Failure("BadSignature")
    ELSE IF ~SignatureValid(tok, Get(GetPublicKeys(d), tok.kid).public)
    THEN Failure("BadSignature")
    ELSE IF NotYetValid(tok.payload, t) THEN Failure("NotYetValid")
    ELSE IF Expired(tok.payload, t) THEN Failure("Expired")
    ELSE [status |-> "ok", claims |-> tok.payload]

\* ---------------------------------------------------------- callers
NoClaims == [sub |-> "none"]

\* a call: its name, the kid it was about (rotate: the kid returned), how it
\* ended, the key pair it generated, what it printed, the token it returned
Op(name, kid, status, gen, out, tok) ==
    [op |-> name, kid |-> kid, status |-> status, gen |-> gen, out |-> out,
     tok |-> tok, claims |-> NoClaims, ttl |-> 0]

NoFiles == [k \in FileKids |-> 0]

\* the kids the environment of a process can name, and the modes of each:
\* no variable ("absent"), PUBLIC only, PRIVATE and PUBLIC ("both"), PRIVATE only
EnvKidList == <<KV1, KV2, KDash>>

\* the variables of one kid: key pair MaxGen + i, Base64 under *_B64 names
\* or raw PEM under the plain names
EnvVarsOf(i, mode, raw) ==
    LET var(type) == [kid |-> KidUpper(EnvKidList[i]), type |-> type,
                      b64 |-> ~raw,
                      value |-> IF raw THEN <<"pem", MaxGen + i>>
                                ELSE EncodePem(MaxGen + i)]
    IN CASE mode = "absent" -> <<>>
         [] mode = "public" -> <<var("PUBLIC")>>
         [] mode = "both" -> <<var("PRIVATE"), var("PUBLIC")>>
         [] OTHER -> <<var("PRIVATE")>>

EnvOf(modes, raw) ==
    EnvVarsOf(1, modes[1], raw) \o EnvVarsOf(2, modes[2], raw)
        \o EnvVarsOf(3, modes[3], raw)

\* the environments a process is started in
EnvChoices ==
    {<<"absent", "absent", "absent">>, <<"both", "absent", "absent">>,
     <<"public", "absent", "both">>, <<"both", "both", "absent">>,
     <<"both", "private", "public">>, <<"both", "both", "both">>}

Envs == {EnvOf(m, FALSE) : m \in EnvChoices}
            \cup {EnvOf(<<"both", "public", "absent">>, TRUE)}

\* a load_keys() that keeps the records it had for kids the backend no
\* longer has
LoadKeysMerging(order, priv, pub, ctime) ==
    \E d \in Loaded(backend, order, priv, pub, ctime, env, now) :
        LET kept == SelectSeq(keys, LAMBDA r : ~HasKid(d, r.kid))
        IN /\ keys' = kept \o d
           /\ activeKid' = SelectActive(kept \o d, activeKid)

\* load_keys() as one step: self._keys replaced, self._active_kid selected
LoadKeys(order, priv, pub, ctime) ==
    \E d \in Loaded(backend, order, priv, pub, ctime, env, now) :
        /\ keys' = d
        /\ activeKid' = SelectActive(d, activeKid)

\* __init__: empty dict, no active kid, then load_keys()
Constructed(b, e, t) ==
    {[keys |-> d, active |-> SelectActive(d, NoKid)] :
        d \in Loaded(b, <<>>, NoFiles, NoFiles, NoFiles, e, t)}

Idle == /\ wpc = "idle"
        /\ UNCHANGED concVars

\* the requests that are handled side by side, each with an AuthService and
\* a database session of its own (get_auth_service)
Requests == {"A", "B"}

\* a request that has not arrived
NotSent == [pc |-> "idle", op |-> "none", user_id |-> "none", status |-> "none",
            wrote |-> FALSE]

UserId == "u1"

\* the database with the user and no refresh token
NoRows == [refresh_tokens |-> {}, users |-> {UserId}]

\* the threads that call into the one manager
Threads == {"A", "B"}

\* a thread that has not called rotate_keys(): its position, the kid and the
\* key pair of its call, the backend entries it still has to load, its
\* active_keys list, and how its call ended
NotCalled ==
    [pc |-> "idle", kid |-> NoKid, gen |-> 0, todo |-> <<>>, active_keys |-> <<>>,
     status |-> "none"]

\* the process is started at time t: the manager is constructed over the
\* backend as it is found
StartedOn(t, database) ==
    /\ backend \in {"filesystem", "environment"}
    /\ privFile = NoFiles
    /\ pubFile = NoFiles
    /\ pubCtime = NoFiles
    /\ dirOrder = <<>>
    /\ env \in (IF backend = "environment" THEN Envs ELSE {<<>>})
    /\ now = t
    /\ \E c \in Constructed(backend, env, t) :
           /\ keys = c.keys
           /\ activeKid = c.active
    /\ nextGen = 1
    /\ tokens = {}
    /\ lastOp = Op("construct", NoKid, "ok", 0, <<>>, NoToken)
    /\ wpc = "idle"
    /\ pending = <<>>
    /\ pre = [keys |-> keys, active |-> activeKid]
    /\ post = [keys |-> keys, active |-> activeKid]
    /\ obs = [keys |-> keys, active |-> activeKid]
    /\ thr = [th \in Threads |-> NotCalled]
    /\ db = database
    /\ req = [r \in Requests |-> NotSent]

Started(t) == StartedOn(t, NoRows)

Init == Started(0)

\* the listings os.listdir can give once {kid}_public.pem is written
Listings(order, kid) ==
    IF \E i \in DOMAIN order : order[i] = kid THEN {order}
    ELSE {SubSeq(order, 1, i) \o <<kid>> \o SubSeq(order, i + 1, Len(order)) :
             i \in 0..Len(order)}

\* a save that writes no public file
SavedNoPub(pub, kid, g) == pub

\* _save_keys_to_file: both files (re)written at time t
SavedPriv(priv, kid, g) == [priv EXCEPT ![kid] = g]
SavedPub(pub, kid, g) == [pub EXCEPT ![kid] = g]
SavedCtime(ctime, kid, t) == [ctime EXCEPT ![kid] = t]

\* generate_key_pair(kid)
Generate(kid) ==
    /\ Idle
    /\ nextGen <= MaxGen
    /\ nextGen' = nextGen + 1
    /\ IF backend = "filesystem"
       THEN /\ privFile' = SavedPriv(privFile, kid, nextGen)
            /\ pubFile' = SavedPub(pubFile, kid, nextGen)
            /\ pubCtime' = SavedCtime(pubCtime, kid, now)
            /\ dirOrder' \in Listings(dirOrder, kid)
       ELSE UNCHANGED fsVars
    /\ lastOp' = Op("generate", kid, "ok", nextGen, <<>>, NoToken)
    /\ UNCHANGED <<backend, env, keys, activeKid, now, tokens>>

\* rotate_keys(new_kid): the kid is synthesized when new_kid is None or ""
RotatedKid(new_kid, t) == IF new_kid = NoKid THEN SynthKid(t) ELSE new_kid

\* rotate_keys(new_kid)
Rotate(new_kid) ==
    LET kid == RotatedKid(new_kid, now)
    IN /\ Idle
       /\ nextGen <= MaxGen
       /\ nextGen' = nextGen + 1
       /\ IF backend = "filesystem"
          THEN /\ privFile' = SavedPriv(privFile, kid, nextGen)
               /\ pubFile' = SavedPub(pubFile, kid, nextGen)
               /\ pubCtime' = SavedCtime(pubCtime, kid, now)
               /\ dirOrder' \in Listings(dirOrder, kid)
          ELSE UNCHANGED fsVars
       /\ LoadKeys(dirOrder', privFile', pubFile', pubCtime')
       /\ lastOp' = Op("rotate", kid, "ok", nextGen,
                       IF backend = "environment" THEN ExportToEnv(keys, kid)
                       ELSE <<>>,
                       NoToken)
       /\ UNCHANGED <<backend, env, now, tokens>>

\* retire_key, lines 267-270: the private file is removed
RemovedPriv(priv, kid) == [priv EXCEPT ![kid] = 0]

\* retire_key without the membership test of lines 264-265
RetireUnchecked(kid) ==
    /\ Idle
    /\ IF backend = "filesystem"
       THEN privFile' = RemovedPriv(privFile, kid)
       ELSE UNCHANGED privFile
    /\ UNCHANGED <<pubFile, pubCtime, dirOrder>>
    /\ LoadKeys(dirOrder, privFile', pubFile, pubCtime)
    /\ lastOp' = Op("retire", kid, "ok", 0, <<>>, NoToken)
    /\ UNCHANGED <<backend, env, now, nextGen, tokens>>

\* retire_key(kid)
Retire(kid) ==
    /\ Idle
    /\ IF ~HasKid(keys, kid)
       THEN /\ lastOp' = Op("retire", kid, "UnknownKey", 0, <<>>, NoToken)
            /\ UNCHANGED <<fsVars, keys, activeKid>>
       ELSE /\ IF backend = "filesystem"
               THEN privFile' = RemovedPriv(privFile, kid)
               ELSE UNCHANGED privFile
            /\ UNCHANGED <<pubFile, pubCtime, dirOrder>>
            /\ LoadKeys(dirOrder, privFile', pubFile, pubCtime)
            /\ lastOp' = Op("retire", kid, "ok", 0, <<>>, NoToken)
    /\ UNCHANGED <<backend, env, now, nextGen, tokens>>

\* load_keys()
Load ==
    /\ Idle
    /\ LoadKeys(dirOrder, privFile, pubFile, pubCtime)
    /\ lastOp' = Op("load", NoKid, "ok", 0, <<>>, NoToken)
    /\ UNCHANGED <<backend, fsVars, env, now, nextGen, tokens>>

\* get_jwks()
Jwks ==
    /\ Idle
    /\ lastOp' = Op("jwks", NoKid, "ok", 0, GetJwks(keys), NoToken)
    /\ UNCHANGED <<backend, fsVars, env, keys, activeKid, now, nextGen, tokens>>

\* KeyRotationManager(...): the process starts again on the same backend
Construct ==
    /\ Idle
    /\ \E d \in Loaded(backend, dirOrder, privFile, pubFile, pubCtime, env, now) :
           /\ keys' = d
           /\ activeKid' = SelectActive(d, NoKid)
    /\ lastOp' = Op("construct", NoKid, "ok", 0, <<>>, NoToken)
    /\ UNCHANGED <<backend, fsVars, env, now, nextGen, tokens>>

\* create_token(payload, expires_in) on a host in the time zone `zone`
Issue(claims, ttl, zone) ==
    LET r == CreateToken(keys, activeKid, claims, ttl, now, zone)
    IN /\ Idle
       /\ Cardinality(tokens) < MaxTokens
       /\ tokens' = IF r.status = "ok" THEN tokens \cup {r.token} ELSE tokens
       /\ lastOp' = [Op("issue", activeKid, r.status, 0, <<>>, r.token)
                         EXCEPT !.claims = claims, !.ttl = ttl]
       /\ UNCHANGED <<backend, fsVars, env, keys, activeKid, now, nextGen>>

\* a second passes
Tick ==
    /\ Idle
    /\ now < MaxTime
    /\ now' = now + 1
    /\ UNCHANGED <<backend, fsVars, env, keys, activeKid, nextGen, tokens, lastOp>>

\* the operator removes files of a kid from keys_dir
ExternalRemove(kid, what) ==
    /\ Idle
    /\ backend = "filesystem"
    /\ pubFile[kid] # 0 \/ privFile[kid] # 0
    /\ privFile' = IF what \in {"private", "both"} THEN RemovedPriv(privFile, kid)
                   ELSE privFile
    /\ pubFile' = IF what \in {"public", "both"} THEN [pubFile EXCEPT ![kid] = 0]
                  ELSE pubFile
    /\ pubCtime' = IF what \in {"public", "both"} THEN [pubCtime EXCEPT ![kid] = 0]
                   ELSE pubCtime
    /\ dirOrder' = IF what \in {"public", "both"}
                   THEN SelectSeq(dirOrder, LAMBDA k : k # kid)
                   ELSE dirOrder
    /\ <<privFile', pubFile'>> # <<privFile, pubFile>>
    /\ lastOp' = Op("remove", kid, "ok", 0, <<>>, NoToken)
    /\ UNCHANGED <<backend, env, keys, activeKid, now, nextGen, tokens>>

RetireKids == ArgKids \cup KidsOf(keys)

Next ==
    \/ \E kid \in ArgKids : Generate(kid)
    \/ \E new_kid \in ArgKids \cup {NoKid} : Rotate(new_kid)
    \/ \E kid \in RetireKids : Retire(kid)
    \/ Load
    \/ Construct
    \/ \E claims \in ClaimSets, ttl \in 1..MaxTtl : Issue(claims, ttl, Utc)
    \/ Tick
    \/ \E kid \in FileKids, what \in {"public", "both"} :
           ExternalRemove(kid, what)

Spec == Init /\ [][Next]_vars

\* issuing beside rotation and retirement, on hosts of every time zone
TokenNext ==
    \/ \E new_kid \in ArgKids \cup {NoKid} : Rotate(new_kid)
    \/ \E kid \in RetireKids : Retire(kid)
    \/ \E claims \in ClaimSets, ttl \in 1..MaxTtl, zone \in Zones :
           Issue(claims, ttl, zone)
    \/ Tick

TokenSpec == Init /\ [][TokenNext]_vars

\* ------------------------------------------------------------ claims
Verifies(tok) == VerifyToken(tok, keys, now).status = "ok"

\* the backend holds for kid the public PEM that self._keys holds for it
BackendHolds(kid) ==
    /\ HasKid(keys, kid)
    /\ backend = "filesystem" => pubFile[kid] = Get(keys, kid).public

\* C1: a token that verifies, and whose kid K1 still has its public entry in
\* the backend, verifies as well after a rotate_keys() to another kid K2 and
\* after a retire_key(); rotation and retirement do not move the clock, so the
\* token's exp has not passed.  Holds on both backends.
C1_TokenOutlivesRotationAndRetirement ==
    [][\A tok \in tokens :
          (/\ Verifies(tok)
           /\ BackendHolds(tok.kid)
           /\ now' = now
           /\ lastOp'.status = "ok"
           /\ \/ lastOp'.op = "rotate" /\ lastOp'.kid # tok.kid
              \/ lastOp'.op = "retire")
          => /\ HasKid(keys', tok.kid)
             /\ VerifyToken(tok, keys', now').status = "ok"]_vars

\* C1 witness: a token of K1 verifies although K1 is retired and another kid
\* K2, made by a rotation, is active
C1_Witness ==
    \E tok \in tokens :
        /\ lastOp.op = "retire" /\ lastOp.kid = tok.kid /\ lastOp.status = "ok"
        /\ activeKid \notin {NoKid, tok.kid}
        /\ HasKid(keys, activeKid) /\ HasKid(keys, tok.kid)
        /\ Get(keys, tok.kid).private = 0
        /\ Later(Get(keys, activeKid).created_at, Get(keys, tok.kid).created_at)
        /\ Verifies(tok)

\* C2 (as claimed): once retire_key(K1) has returned, get_active_key() does
\* not return K1, and get_public_keys() still holds K1 unless the operator had
\* removed K1's public file.  Fails on the environment backend, where the
\* reload brings K1's private PEM back.
C2_RetiredKeyNeverActive ==
    (lastOp.op = "retire" /\ lastOp.status = "ok")
    => /\ GetActiveKey(keys, activeKid).kid # lastOp.kid
       /\ \/ backend = "filesystem" /\ pubFile[lastOp.kid] = 0
          \/ HasKid(GetPublicKeys(keys), lastOp.kid)

\* C3 (as claimed): self._active_kid is None or names a record of self._keys
\* that has private material, and it is None after a load that found no
\* record with private material.
C3_ActiveKidHasPrivate ==
    /\ \/ activeKid = NoKid
       \/ HasKid(keys, activeKid) /\ Get(keys, activeKid).private # 0
    /\ (lastOp.op \in {"load", "rotate", "retire"} /\ lastOp.status = "ok"
        /\ Len(ActiveKeys(keys)) = 0)
       => activeKid = NoKid

\* C4 (as claimed): when rotate_keys() has returned kid K, self._keys holds K
\* with private material and get_active_key() returns K.
C4_RotateActivatesNewKid ==
    lastOp.op = "rotate"
    => /\ HasKid(keys, lastOp.kid)
       /\ Get(keys, lastOp.kid).private # 0
       /\ GetActiveKey(keys, activeKid).kid = lastOp.kid

\* C5 (as claimed): on the environment backend rotate_keys() prints the
\* PRIVATE_B64 and the PUBLIC_B64 variable of the kid, holding the Base64 of
\* the PEMs it has just generated.
C5_RotatePrintsGeneratedPair ==
    (lastOp.op = "rotate" /\ backend = "environment")
    => /\ \E i \in DOMAIN lastOp.out :
              lastOp.out[i] = EnvVar(lastOp.kid, "PRIVATE", lastOp.gen)
       /\ \E i \in DOMAIN lastOp.out :
              lastOp.out[i] = EnvVar(lastOp.kid, "PUBLIC", lastOp.gen)

Payload(nbf, exp) ==
    [sub |-> "u1", type |-> "access", iat |-> nbf, nbf |-> nbf, exp |-> exp]

\* tokens signed with the private key of a record of d (the key that pairs
\* with its public PEM), with every nbf and exp the clock can meet
SignedTokens(d) ==
    {Encode(Payload(n, x), d[i].public, d[i].kid) :
        i \in DOMAIN d, n \in 0..(MaxTime + 1), x \in 0..(MaxTime + 1)}

\* a PEM of a key pair the manager never had
ForeignPem == 2 * MaxGen + 10

\* the tokens a client may present: any kid or none, signed by any key of the
\* key set or by a foreign key, with time claims valid or not
ForgedTokens(d) ==
    {Encode(Payload(n, x), signer, kid) :
        kid \in KidsOf(d) \cup ArgKids \cup {NoKid},
        signer \in {d[i].public : i \in DOMAIN d} \cup {ForeignPem},
        n \in {0, MaxTime + 1}, x \in {0, MaxTime + 1}}

\* a string that is no JWT, and tokens whose header names another algorithm
OddTokens(d) ==
    {NoToken} \cup {[tok EXCEPT !.alg = "HS256"] : tok \in SignedTokens(d)}

PresentedTokens(d) == SignedTokens(d) \cup ForgedTokens(d) \cup OddTokens(d)

\* verify_token(token)
Verify(tok) ==
    LET r == VerifyToken(tok, keys, now)
    IN /\ Idle
       /\ lastOp' = [Op("verify", tok.kid, r.status, 0, <<>>, tok)
                         EXCEPT !.claims = r.claims]
       /\ UNCHANGED <<backend, fsVars, env, keys, activeKid, now, nextGen, tokens>>

\* a process started at any time, over any environment, is handed tokens
VerifyInit == \E t \in 0..MaxTime : Started(t)

\* verify_access_token returned None
NoUser == [user_id |-> "None"]

\* the strings uuid.UUID() accepts
Uuids == {"u1"}

\* a verify_access_token that does not look at the type claim
VerifyAccessTokenAnyType(tok, d, t) ==
    LET r == VerifyToken(tok, d, t)
    IN IF r.status # "ok" THEN NoUser
       ELSE IF r.claims["sub"] \notin Uuids THEN NoUser
       ELSE [user_id |-> r.claims["sub"]]

\* AuthService.verify_access_token: JWTError and any other exception give
\* None, and so does a type other than "access"
VerifyAccessToken(tok, d, t) ==
    LET r == VerifyToken(tok, d, t)
    IN IF r.status # "ok" THEN NoUser
       ELSE IF "type" \notin DOMAIN r.claims \/ r.claims["type"] # "access"
       THEN NoUser
       ELSE IF r.claims["sub"] \notin Uuids THEN NoUser
       ELSE [user_id |-> r.claims["sub"]]

\* get_current_user: creds is <<>> (no Authorization header) or <<token>>;
\* found says whether get_user_by_id finds the user
GetCurrentUser(creds, d, t, found) ==
    IF Len(creds) = 0
    THEN [status_code |-> 401, detail |-> "Not authenticated"]
    ELSE IF VerifyAccessToken(creds[1], d, t) = NoUser
    THEN [status_code |-> 401, detail |-> "Invalid or expired token"]
    ELSE IF ~found
    THEN [status_code |-> 401, detail |-> "User not found"]
    ELSE [status_code |-> 200, detail |-> "OK"]

\* correctly signed, valid tokens that are no access tokens of a user
NonAccessTokens(d) ==
    {Encode([Payload(0, MaxTime + 1) EXCEPT !.type = "refresh"],
            d[i].public, d[i].kid) : i \in DOMAIN d}
    \cup {Encode([Payload(0, MaxTime + 1) EXCEPT !.sub = "no-uuid"],
                 d[i].public, d[i].kid) : i \in DOMAIN d}

\* the bearer tokens of requests: no JWT at all, signed by the key of their
\* kid or by a foreign key, with any kid or none, time claims valid or not,
\* and the tokens that are no access tokens
BearerTokens(d) ==
    {NoToken} \cup NonAccessTokens(d)
    \cup {tok \in ForgedTokens(d) :
             \/ tok.signer = ForeignPem
             \/ HasKid(d, tok.kid) /\ tok.signer = Get(d, tok.kid).public}

\* a request that passes through get_current_user
Authenticate(creds, found) ==
    LET tok == IF Len(creds) = 0 THEN NoToken ELSE creds[1]
        payload == VerifyAccessToken(tok, keys, now)
    IN /\ Idle
       /\ lastOp' = Op("get_current_user", tok.kid,
                       IF Len(creds) = 0 THEN "skipped"
                       ELSE IF payload = NoUser THEN "None" ELSE "user",
                       0, <<GetCurrentUser(creds, keys, now, found)>>, tok)
       /\ UNCHANGED <<backend, fsVars, env, keys, activeKid, now, nextGen, tokens>>

VerifyNext ==
    \/ \E tok \in PresentedTokens(keys) : Verify(tok)
    \/ \E creds \in {<<>>} \cup {<<tok>> : tok \in BearerTokens(keys)} :
           \E found \in (IF Len(creds) = 0 \/ VerifyAccessToken(creds[1], keys, now) = NoUser
                         THEN {FALSE} ELSE BOOLEAN) :
               Authenticate(creds, found)

VerifySpec == VerifyInit /\ [][VerifyNext]_vars

CorrectlySigned(tok) ==
    /\ ~tok.malformed
    /\ tok.alg = "RS256"
    /\ tok.kid \in KidsOf(keys)
    /\ SignatureValid(tok, Get(keys, tok.kid).public)
    /\ tok.payload["nbf"] <= tok.payload["exp"]

\* C7: a correctly signed token (nbf <= exp) fails with Expired exactly when
\* now > exp, with NotYetValid exactly when now < nbf, and is accepted at
\* now = exp and at now = nbf: no leeway.
C7_ExactTimeComparison ==
    (lastOp.op = "verify" /\ CorrectlySigned(lastOp.tok))
    => LET tok == lastOp.tok
           s == lastOp.status
       IN /\ (s = "Expired") <=> (now > tok.payload["exp"])
          /\ (s = "NotYetValid") <=> (now < tok.payload["nbf"])
          /\ (now = tok.payload["exp"] \/ now = tok.payload["nbf"]) => s = "ok"

\* C7 witness: a correctly signed token is verified, and accepted, at now = exp
C7_Witness ==
    /\ lastOp.op = "verify"
    /\ CorrectlySigned(lastOp.tok)
    /\ now = lastOp.tok.payload["exp"]
    /\ now > lastOp.tok.payload["nbf"]
    /\ lastOp.status = "ok"

\* C8: verify_token picks the key by the header's kid alone: no kid fails with
\* MissingKid, a kid outside get_public_keys() fails with UnknownKid whatever the
\* signature and the time claims are, and a token is accepted only if it was
\* signed by the private key of the public PEM held for its kid.
C8_KeySelectedByKid ==
    (lastOp.op = "verify" /\ ~lastOp.tok.malformed)
    => LET tok == lastOp.tok
           s == lastOp.status
       IN /\ tok.kid = NoKid => s = "MissingKid"
          /\ (tok.kid # NoKid /\ tok.kid \notin KidsOf(keys)) => s = "UnknownKid"
          /\ s = "ok" => /\ tok.kid \in KidsOf(keys)
                         /\ \E i \in DOMAIN keys : /\ keys[i].kid = tok.kid
                                                   /\ keys[i].public = tok.signer

\* C8 witness: the key set holds two key pairs, and a token signed by the one
\* but carrying the kid of the other, its time claims in order, is rejected
C8_Witness ==
    /\ lastOp.op = "verify"
    /\ lastOp.status = "BadSignature"
    /\ lastOp.tok.alg = "RS256"
    /\ lastOp.tok.payload["nbf"] <= now /\ now <= lastOp.tok.payload["exp"]
    /\ \E i, j \in DOMAIN keys :
           /\ keys[i].public # keys[j].public
           /\ lastOp.tok.signer = keys[i].public
           /\ lastOp.tok.kid = keys[j].kid

\* a new environment-backed manager loaded from exactly the exported variables
RoundTrip(d) ==
    LoadKeysFromEnv(ExportToEnv(d, NoKid), now, [i \in 1..(Len(d) + 1) |-> FALSE])

\* the same kids, the same public PEM per kid, private PEM present alike
SameKeySet(a, b) ==
    /\ KidsOf(a) = KidsOf(b)
    /\ \A k \in KidsOf(a) :
           /\ Get(a, k).public = Get(b, k).public
           /\ (Get(a, k).private # 0) <=> (Get(b, k).private # 0)

\* C9 (as claimed): export_to_env() followed by a load of an environment-backed
\* manager from those variables reproduces the key set, whatever the kids are.
C9_ExportLoadRoundTrip == SameKeySet(keys, RoundTrip(keys))

\* ------------------------------------------- load_keys() beside a reader
\* The manager takes no lock, so a thread that reads self._keys and
\* self._active_kid can run between any two statements of load_keys().

\* load_keys, line 99: self._keys.clear(); the backend is read
LoadBegin ==
    /\ wpc = "idle"
    /\ \E d \in Loaded(backend, dirOrder, privFile, pubFile, pubCtime, env, now) :
           /\ pending' = d
           /\ post' = [keys |-> d, active |-> SelectActive(d, activeKid)]
    /\ pre' = [keys |-> keys, active |-> activeKid]
    /\ obs' = [keys |-> keys, active |-> activeKid]
    /\ keys' = <<>>
    /\ wpc' = "fill"
    /\ UNCHANGED <<backend, fsVars, env, activeKid, now, nextGen, tokens, lastOp,
                   thr, db, req>>

\* lines 134 and 183: self._keys[kid] = {...}, one record at a time
LoadPut ==
    /\ wpc = "fill"
    /\ pending # <<>>
    /\ keys' = Append(keys, Head(pending))
    /\ pending' = Tail(pending)
    /\ UNCHANGED <<backend, fsVars, env, activeKid, now, nextGen, tokens, lastOp,
                   wpc, pre, post, obs, thr, db, req>>

\* lines 107-115: the active kid is selected and load_keys() returns
LoadSelect ==
    /\ wpc = "fill"
    /\ pending = <<>>
    /\ activeKid' = SelectActive(keys, activeKid)
    /\ wpc' = "idle"
    /\ lastOp' = Op("load", NoKid, "ok", 0, <<>>, NoToken)
    /\ UNCHANGED <<backend, fsVars, env, keys, now, nextGen, tokens, pending, pre,
                   post, obs, thr, db, req>>

\* get_active_key / get_public_keys / get_jwks in another thread, while
\* load_keys() runs: what it finds in self._keys and self._active_kid
Read ==
    /\ wpc = "fill"
    /\ obs' = [keys |-> keys, active |-> activeKid]
    /\ UNCHANGED <<backend, fsVars, env, keys, activeKid, now, nextGen, tokens,
                   lastOp, wpc, pending, pre, post, thr, db, req>>

ConcNext ==
    \/ \E new_kid \in ArgKids \cup {NoKid} : Rotate(new_kid)
    \/ \E kid \in RetireKids : Retire(kid)
    \/ LoadBegin
    \/ LoadPut
    \/ LoadSelect
    \/ Read

ConcSpec == Init /\ [][ConcNext]_vars

\* C10 (as claimed): a read that runs beside load_keys() finds either the whole
\* key set and active kid from before the load or the whole ones from after
\* it, and never an active kid that its key set does not hold.
C10_ReadsSeeWholeSnapshot ==
    /\ obs \in {pre, post}
    /\ obs.active = NoKid \/ HasKid(obs.keys, obs.active)

\* ------------------------------------- rotate_keys() in two threads
\* Two threads call rotate_keys() on the one manager while a third verifies
\* tokens.  Each statement of rotate_keys() and of load_keys() is a step.

\* the PEM of a key pair that was in keys_dir before the process started
OldPem == MaxGen + 1

\* a keys_dir that holds the pair of kid v1
OldFiles(pem) == [k \in FileKids |-> IF k = KV1 THEN pem ELSE 0]

\* the environments of the processes whose threads race
RaceEnvs == {EnvOf(<<"both", "absent", "absent">>, FALSE),
             EnvOf(<<"both", "both", "absent">>, FALSE)}

\* the process starts a second after v1's files were written
RaceInit ==
    /\ backend \in {"filesystem", "environment"}
    /\ privFile = (IF backend = "filesystem" THEN OldFiles(OldPem) ELSE NoFiles)
    /\ pubFile = (IF backend = "filesystem" THEN OldFiles(OldPem) ELSE NoFiles)
    /\ pubCtime = NoFiles
    /\ dirOrder = (IF backend = "filesystem" THEN <<KV1>> ELSE <<>>)
    /\ env \in (IF backend = "environment" THEN RaceEnvs ELSE {<<>>})
    /\ now = 1
    /\ \E d \in Loaded(backend, dirOrder, privFile, pubFile, pubCtime, env, now) :
           /\ keys = d
           /\ activeKid = SelectActive(d, NoKid)
    /\ nextGen = 1
    /\ tokens = {}
    /\ lastOp = Op("construct", NoKid, "ok", 0, <<>>, NoToken)
    /\ wpc = "idle"
    /\ pending = <<>>
    /\ pre = [keys |-> keys, active |-> activeKid]
    /\ post = [keys |-> keys, active |-> activeKid]
    /\ obs = [keys |-> keys, active |-> activeKid]
    /\ thr = [th \in Threads |-> NotCalled]
    /\ db = NoRows
    /\ req = [r \in Requests |-> NotSent]

\* the thread is inside rotate_keys()
InFlight(th) == thr[th].pc \notin {"idle", "done"}

\* self._keys[kid] = record on a dict in insertion order
DictPut(d, r) ==
    IF HasKid(d, r.kid) THEN [d EXCEPT ![IndexOf(d, r.kid, 1)] = r]
    ELSE Append(d, r)

\* rotate_keys, lines 245-249, and _save_keys_to_file, lines 90-91: the kid
\* is fixed, the pair generated, the private file written
RStart(th, new_kid) ==
    LET kid == RotatedKid(new_kid, now)
    IN /\ wpc = "idle"
       /\ thr[th].pc = "idle"
       /\ nextGen <= MaxGen
       /\ nextGen' = nextGen + 1
       /\ privFile' = IF backend = "filesystem"
                      THEN SavedPriv(privFile, kid, nextGen)
                      ELSE privFile
       /\ thr' = [thr EXCEPT ![th] =
                     [NotCalled EXCEPT
                        !.pc = IF backend = "filesystem" THEN "pub" ELSE "clear",
                        !.kid = kid, !.gen = nextGen]]
       /\ pre' = IF \A u \in Threads : ~InFlight(u)
                 THEN [keys |-> keys, active |-> activeKid]
                 ELSE pre
       /\ UNCHANGED <<backend, pubFile, pubCtime, dirOrder, env, keys, activeKid,
                      now, tokens, lastOp, wpc, pending, post, obs, db, req>>

\* _save_keys_to_file, lines 92-93: the public file is written
RSavePub(th) ==
    /\ thr[th].pc = "pub"
    /\ pubFile' = SavedPub(pubFile, thr[th].kid, thr[th].gen)
    /\ pubCtime' = SavedCtime(pubCtime, thr[th].kid, now)
    /\ dirOrder' \in Listings(dirOrder, thr[th].kid)
    /\ thr' = [thr EXCEPT ![th].pc = "clear"]
    /\ UNCHANGED <<backend, privFile, env, keys, activeKid, now, nextGen, tokens,
                   lastOp, wpc, pending, pre, post, obs, db, req>>

\* load_keys, line 99, and os.listdir, line 120 (os.environ, line 151): the
\* dict is emptied and the entries to load are listed
RClear(th) ==
    /\ thr[th].pc = "clear"
    /\ keys' = <<>>
    /\ \E d \in Loaded(backend, dirOrder, privFile, pubFile, pubCtime, env, now) :
           thr' = [thr EXCEPT ![th].pc = "fill", ![th].todo = d]
    /\ UNCHANGED <<backend, fsVars, env, activeKid, now, nextGen, tokens, lastOp,
                   wpc, pending, pre, post, obs, db, req>>

\* lines 126-139 (180-188): the files of one listed kid are read and its
\* record is put into self._keys
RPut(th) ==
    /\ thr[th].pc = "fill"
    /\ thr[th].todo # <<>>
    /\ LET h == Head(thr[th].todo)
           rec == IF backend = "filesystem"
                  THEN LoadKeysFromFilesystem(<<h.kid>>, privFile, pubFile,
                                              pubCtime)[1]
                  ELSE h
       IN keys' = DictPut(keys, rec)
    /\ thr' = [thr EXCEPT ![th].todo = Tail(@)]
    /\ UNCHANGED <<backend, fsVars, env, activeKid, now, nextGen, tokens, lastOp,
                   wpc, pending, pre, post, obs, db, req>>

\* load_keys, lines 107-110: active_keys is built
RScan(th) ==
    /\ thr[th].pc = "fill"
    /\ thr[th].todo = <<>>
    /\ thr' = [thr EXCEPT ![th].pc = "pick",
                          ![th].active_keys =
                              [i \in DOMAIN ActiveKeys(keys) |-> ActiveKeys(keys)[i].kid]]
    /\ UNCHANGED <<backend, fsVars, env, keys, activeKid, now, nextGen, tokens,
                   lastOp, wpc, pending, pre, post, obs, db, req>>

\* load_keys, lines 111-115, and rotate_keys, line 260: max() looks every kid
\* of active_keys up in self._keys as it is now; rotate_keys() returns
RPick(th) ==
    LET a == thr[th].active_keys
    IN /\ thr[th].pc = "pick"
       /\ IF Len(a) = 0
          THEN /\ UNCHANGED activeKid
               /\ thr' = [thr EXCEPT ![th].pc = "done", ![th].status = "ok"]
          ELSE IF \E i \in DOMAIN a : ~HasKid(keys, a[i])
          THEN /\ UNCHANGED activeKid
               /\ thr' = [thr EXCEPT ![th].pc = "done", ![th].status = "KeyError"]
          ELSE /\ activeKid' =
                      MaxByCreatedAt([i \in DOMAIN a |-> Get(keys, a[i])], 1, 1)
               /\ thr' = [thr EXCEPT ![th].pc = "done", ![th].status = "ok"]
       /\ UNCHANGED <<backend, fsVars, env, keys, now, nextGen, tokens, lastOp,
                      wpc, pending, pre, post, obs, db, req>>

\* the token signed, before the rotations, with the key that was active
RaceTokens ==
    {Encode(Payload(0, MaxTime + 1), pre.keys[i].public, pre.keys[i].kid) :
        i \in {j \in DOMAIN pre.keys : pre.keys[j].kid = pre.active}}

\* verify_token in a third thread while a rotation is in flight
VerifyBeside(tok) ==
    /\ \E th \in Threads : InFlight(th)
    /\ Verify(tok)

RaceNext ==
    \/ \E new_kid \in {KUp} : RStart("A", new_kid)
    \/ \E new_kid \in {NoKid} : RStart("B", new_kid)
    \/ \E th \in Threads : RSavePub(th)
    \/ \E th \in Threads : RClear(th)
    \/ \E th \in Threads : RPut(th)
    \/ \E th \in Threads : RScan(th)
    \/ \E th \in Threads : RPick(th)
    \/ \E tok \in RaceTokens : VerifyBeside(tok)

RaceSpec == RaceInit /\ [][RaceNext]_vars

\* every load of the backend as it is now yields a record for kid
BackendLoads(kid) ==
    \A d \in Loaded(backend, dirOrder, privFile, pubFile, pubCtime, env, now) :
        HasKid(d, kid)

\* C11 (as claimed): while exactly one rotate_keys() is in flight, to a kid
\* other than the token's, a verify_token() of a token whose kid was in
\* self._keys before the rotation and is loaded from the backend after it ends
\* as it would have ended on the key set from before the rotation, and never
\* with UnknownKid.
C11_VerifyBesideRotation ==
    [][\A th \in Threads :
          (/\ InFlight(th)
           /\ \A u \in Threads \ {th} : ~InFlight(u)
           /\ thr' = thr
           /\ lastOp'.op = "verify"
           /\ HasKid(pre.keys, lastOp'.tok.kid)
           /\ BackendLoads(lastOp'.tok.kid)
           /\ lastOp'.tok.kid # thr[th].kid)
          => /\ lastOp'.status = VerifyToken(lastOp'.tok, pre.keys, now).status
             /\ lastOp'.status # "UnknownKid"]_vars

\* C12 (as claimed): once two interleaved rotate_keys() calls with distinct
\* kids have both returned, self._keys holds both kids, and self._active_kid
\* names a record with private material whose created_at no other such
\* record exceeds.
C12_InterleavedRotations ==
    (/\ \A th \in Threads : thr[th].pc = "done" /\ thr[th].status = "ok"
     /\ thr["A"].kid # thr["B"].kid)
    => /\ HasKid(keys, thr["A"].kid)
       /\ HasKid(keys, thr["B"].kid)
       /\ activeKid # NoKid
       /\ HasKid(keys, activeKid)
       /\ Get(keys, activeKid).private # 0
       /\ \A i \in DOMAIN keys :
              keys[i].private # 0
              => ~Later(keys[i].created_at, Get(keys, activeKid).created_at)

\* ------------------------------------------- rotate_keys() that fails
\* rotate_keys(new_kid) raises out of generate_key_pair: either before
\* anything is written (rsa.generate_private_key, or open() of the private
\* file, raises), or at open() of the public file, when the private file has
\* been written.  load_keys() is not reached.
RotateFails(new_kid, at) ==
    LET kid == RotatedKid(new_kid, now)
    IN /\ Idle
       /\ IF at = "public"
          THEN /\ backend = "filesystem"
               /\ nextGen <= MaxGen
               /\ nextGen' = nextGen + 1
               /\ privFile' = SavedPriv(privFile, kid, nextGen)
               /\ lastOp' = Op("rotate", kid, "raised", nextGen, <<>>, NoToken)
          ELSE /\ UNCHANGED <<nextGen, privFile>>
               /\ lastOp' = Op("rotate", kid, "raised", 0, <<>>, NoToken)
       /\ UNCHANGED <<backend, pubFile, pubCtime, dirOrder, env, keys, activeKid,
                      now, tokens>>

FaultNext ==
    \/ \E new_kid \in ArgKids \cup {NoKid} : Rotate(new_kid)
    \/ \E new_kid \in ArgKids \cup {NoKid}, at \in {"generate", "public"} :
           RotateFails(new_kid, at)
    \/ Load
    \/ \E claims \in ClaimSets, ttl \in 1..MaxTtl, zone \in Zones :
           Issue(claims, ttl, zone)

FaultSpec == Init /\ [][FaultNext]_vars

\* the key that is active in d issues a token, and the token verifies (on a
\* host without clock changes)
Usable(d, active, t) ==
    LET r == CreateToken(d, active, [sub |-> "u1", type |-> "access"], MaxTtl, t,
                         Utc)
    IN /\ r.status = "ok"
       /\ VerifyToken(r.token, d, t).status = "ok"

\* a load_keys() of the backend as it is now keeps the active kid, and the
\* key is usable
UsableAfterLoad ==
    \A d \in Loaded(backend, dirOrder, privFile, pubFile, pubCtime, env, now) :
        /\ SelectActive(d, activeKid) = activeKid
        /\ Usable(d, activeKid, now)

\* C13 (as claimed): when rotate_keys() raises, self._keys and
\* self._active_kid are as before, and the key that was active and usable,
\* in memory and after a reload, still is: it issues tokens that verify,
\* now and after a later load_keys().
C13_FailedRotationKeepsActiveKey ==
    [][(/\ lastOp'.op = "rotate"
        /\ lastOp'.status = "raised"
        /\ Usable(keys, activeKid, now)
        /\ UsableAfterLoad)
       => /\ keys' = keys
          /\ activeKid' = activeKid
          /\ Usable(keys', activeKid', now')
          /\ UsableAfterLoad']_vars

\* ------------------------------------- claims on the key set (Spec)
\* C14 (as claimed): when generate_key_pair(kid) has returned on the
\* filesystem backend, get_public_keys() holds kid and export_to_env(kid) is
\* not empty, with no load_keys() in between.
C14_GenerateReloads ==
    (lastOp.op = "generate" /\ backend = "filesystem")
    => /\ HasKid(GetPublicKeys(keys), lastOp.kid)
       /\ Len(ExportToEnv(keys, lastOp.kid)) > 0

\* C15 (as claimed): get_active_key() returns a record of self._keys that
\* has private material, or fails with NoActiveKey, which it does exactly when
\* self._active_kid is None, or fails with PrivateKeyUnavailable, and in no
\* other way; create_token() fails as get_active_key() does and returns no
\* token.
C15_ActiveKeyOutcomes ==
    LET ak == GetActiveKey(keys, activeKid)
    IN /\ ak.status \in {"ok", "NoActiveKey", "PrivateKeyUnavailable"}
       /\ (ak.status = "NoActiveKey") <=> (activeKid = NoKid)
       /\ ak.status = "ok"
          => /\ HasKid(keys, ak.kid)
             /\ Get(keys, ak.kid).private # 0
             /\ ak.private = Get(keys, ak.kid).private
             /\ ak.public = Get(keys, ak.kid).public
       /\ lastOp.op = "issue"
          => /\ lastOp.status = ak.status
             /\ lastOp.status # "ok" => lastOp.tok = NoToken

\* C16 (as claimed): after load_keys(), self._active_kid is what the backend
\* content alone determines: every load of that content selects it, it is
\* None when no record has private material, and otherwise it names a record
\* with private material whose created_at no other such record exceeds.
C16_ActiveKidDeterminedByBackend ==
    lastOp.op = "load"
    => /\ \A d \in Loaded(backend, dirOrder, privFile, pubFile, pubCtime, env, now) :
              SelectActive(d, NoKid) = activeKid
       /\ activeKid # NoKid
          => /\ HasKid(keys, activeKid)
             /\ Get(keys, activeKid).private # 0
             /\ \A i \in DOMAIN keys :
                    keys[i].private # 0
                    => ~Later(keys[i].created_at, Get(keys, activeKid).created_at)

\* the key store without tokens and with the clock standing still: what the
\* calls do to the backend and to self._keys
StoreNext ==
    \/ \E kid \in ArgKids : Generate(kid)
    \/ \E new_kid \in ArgKids \cup {NoKid} : Rotate(new_kid)
    \/ \E kid \in RetireKids : Retire(kid)
    \/ Load
    \/ Construct
    \/ Jwks
    \/ \E kid \in FileKids, what \in {"public", "both"} :
           ExternalRemove(kid, what)

StoreSpec == Init /\ [][StoreNext]_vars

\* C18 (as claimed): a rotate_keys() with new_kid omitted does not write over
\* files of its kid: no earlier rotate_keys() has returned the same kid.
C18_SynthesizedKidsDistinct ==
    [][(/\ lastOp'.op = "rotate"
        /\ nextGen' = nextGen + 1
        /\ lastOp'.kid = SynthKid(now)
        /\ backend = "filesystem")
       => /\ pubFile[lastOp'.kid] = 0
          /\ privFile[lastOp'.kid] = 0]_vars

\* the kids that have a public / a private entry in the backend
BackendPublicKids ==
    IF backend = "filesystem" THEN {k \in FileKids : pubFile[k] # 0}
    ELSE {KidLower(env[i].kid) : i \in {j \in DOMAIN env : env[j].type = "PUBLIC"}}

BackendPrivateKids ==
    IF backend = "filesystem" THEN {k \in FileKids : privFile[k] # 0}
    ELSE {KidLower(env[i].kid) : i \in {j \in DOMAIN env : env[j].type = "PRIVATE"}}

\* C19: after load_keys() (also the one of __init__) self._keys holds
\* exactly the kids that have a public entry in the backend, each with
\* private material exactly when the backend has a private entry for it.
C19_LoadReplacesKeySet ==
    lastOp.op \in {"load", "construct"}
    => /\ KidsOf(keys) = BackendPublicKids
       /\ Len(keys) = Cardinality(BackendPublicKids)
       /\ \A i \in DOMAIN keys :
              (keys[i].private # 0) <=> (keys[i].kid \in BackendPrivateKids)
       /\ backend = "filesystem"
          => \A i \in DOMAIN keys : keys[i].public = pubFile[keys[i].kid]

\* C19 witness: a load after the operator removed the public file of a kid:
\* the kid has only its private file and no record, while another kid is held
C19_Witness ==
    /\ lastOp.op = "load"
    /\ backend = "filesystem"
    /\ Len(keys) > 0
    /\ \E k \in FileKids : privFile[k] # 0 /\ pubFile[k] = 0 /\ ~HasKid(keys, k)

\* C20: generate_key_pair(kid) on the environment backend leaves the
\* environment variables, self._keys and self._active_kid (and the keys
\* directory) as they were; on the filesystem backend it writes the private
\* and the public file of kid with the pair it generated.
C20_GenerateFrame ==
    [][(lastOp'.op = "generate" /\ nextGen' = nextGen + 1)
       => IF backend = "environment"
          THEN /\ env' = env
               /\ keys' = keys
               /\ activeKid' = activeKid
               /\ UNCHANGED fsVars
          ELSE /\ privFile'[lastOp'.kid] = nextGen
               /\ pubFile'[lastOp'.kid] = nextGen
               /\ lastOp'.gen = nextGen]_vars

\* C20 witness: generate_key_pair(kid) has returned on the environment
\* backend, and the key set, which holds other kids, does not hold kid
C20_Witness ==
    /\ lastOp.op = "generate"
    /\ backend = "environment"
    /\ Len(keys) > 0
    /\ ~HasKid(keys, lastOp.kid)

\* ------------------------------------------------ claims on retire_key
\* C21: retire_key(kid) for a kid that self._keys does not hold raises
\* (ValueError, "UnknownKey") and leaves self._keys, self._active_kid, the
\* files of keys_dir and the environment variables as they were.
C21_RetireUnknownKid ==
    [][(lastOp'.op = "retire" /\ ~HasKid(keys, lastOp'.kid))
       => /\ lastOp'.status = "UnknownKey"
          /\ keys' = keys
          /\ activeKid' = activeKid
          /\ env' = env
          /\ UNCHANGED fsVars]_vars

\* C21 witness: retire_key(kid) has raised for a kid that has no record, the
\* key set holds other kids, and the private file the kid still has in
\* keys_dir has not been removed
C21_Witness ==
    /\ lastOp.op = "retire"
    /\ lastOp.status = "UnknownKey"
    /\ ~HasKid(keys, lastOp.kid)
    /\ Len(keys) > 0
    /\ backend = "filesystem"
    /\ privFile[lastOp.kid] # 0

\* ---------------------------------------------- claims on create_token
\* C22 (as claimed): the token create_token(payload, expires_in) returns has
\* iat = nbf = the epoch second of the call and exp = that second +
\* expires_in, in place of any iat, nbf and exp of the caller, and its header
\* has the kid that was self._active_kid at the call, alg RS256 and typ JWT.
\* Fails for exp on a host whose wall clock is set back within the lifetime.
C22_IssueTimesAndHeader ==
    [][(lastOp'.op = "issue" /\ lastOp'.status = "ok" /\ now' = now)
       => /\ lastOp'.tok.payload["iat"] = now
          /\ lastOp'.tok.payload["nbf"] = now
          /\ lastOp'.tok.payload["exp"] = now + lastOp'.ttl
          /\ lastOp'.tok.kid = activeKid
          /\ lastOp'.tok.alg = "RS256"
          /\ lastOp'.tok.typ = "JWT"]_vars

\* ----------------------------------- claims on get_public_keys, get_jwks
\* what get_public_keys() and get_jwks() return lists the kids of self._keys
\* one by one in the order of the dict, each kid once, with its public key
ListsKeySet(pk, jwks) ==
    /\ Len(pk) = Len(keys)
    /\ Len(jwks) = Len(keys)
    /\ \A i \in DOMAIN keys :
           /\ pk[i].kid = keys[i].kid
           /\ pk[i].public = keys[i].public
           /\ jwks[i].kid = keys[i].kid
           /\ jwks[i].n = keys[i].public
    /\ \A i, j \in DOMAIN jwks : jwks[i].kid = jwks[j].kid => i = j

\* C23: in every state get_public_keys() and get_jwks() list exactly the
\* kids of self._keys, records without private material included, get_jwks()
\* with one entry for each kid in the order of insertion; and a get_jwks()
\* that follows a get_jwks() returns the same document.
C23_JwksListsKeySet ==
    [][/\ ListsKeySet(GetPublicKeys(keys), GetJwks(keys))
       /\ ListsKeySet(GetPublicKeys(keys), GetJwks(keys))'
       /\ lastOp'.op = "jwks"
          => /\ lastOp'.out = GetJwks(keys)
             /\ lastOp.op = "jwks" => lastOp'.out = lastOp.out]_vars

\* C23 witness: get_jwks() has returned two entries, the first of them for a
\* retired kid, while the second kid is the active one
C23_Witness ==
    /\ lastOp.op = "jwks"
    /\ Len(lastOp.out) = 2
    /\ Len(keys) = 2
    /\ keys[1].private = 0
    /\ lastOp.out[1].kid = keys[1].kid
    /\ lastOp.out[2].kid = activeKid

\* ------------------------------------------ claims on the kid of a key
\* C26 (as claimed): the public PEM self._keys holds under a kid does not
\* change in a generate_key_pair, rotate_keys, retire_key or load_keys, also
\* when rotate_keys is given a kid that self._keys already holds, and a token
\* that verified does not fail with a bad signature after the call.
C26_KidIsStable ==
    [][lastOp'.op \in {"generate", "rotate", "retire", "load"}
       => /\ \A i \in DOMAIN keys :
                 HasKid(keys', keys[i].kid)
                 => Get(keys', keys[i].kid).public = keys[i].public
          /\ \A tok \in tokens :
                 Verifies(tok)
                 => VerifyToken(tok, keys', now').status # "BadSignature"]_vars

\* ------------------------------------------------- refresh tokens
\* The refresh token string every request presents, and the string
\* secrets.token_urlsafe(64) hands to request r (fresh in each call)
Presented == <<"refresh", "0">>

NewRefresh(r) == <<"refresh", r>>

\* a row of refresh_tokens
Row(token, user_id, revoked, expires_at) ==
    [token |-> token, user_id |-> user_id, revoked |-> revoked,
     expires_at |-> expires_at]

\* jwt_refresh_expire_days from now
ExpiresAt(t) == t + MaxTime + 1

\* the databases a process finds: the presented token is unknown, valid,
\* revoked, or expired
Databases ==
    {NoRows}
    \cup {[NoRows EXCEPT !.refresh_tokens = {Row(Presented, UserId, rv, ex)}] :
              rv \in BOOLEAN, ex \in {0, ExpiresAt(0)}}

\* Each statement a repository awaits takes effect on the store when it is
\* made; the session that get_db hands to the request is not modelled.
\* get_by_token: the row of the token if it is neither revoked nor expired,
\* as <<(user_id, revoked)>>, or <<>> for None
GetByToken(rows, token, t) ==
    LET found == {m \in rows : m.token = token /\ ~m.revoked /\ m.expires_at > t}
    IN IF found = {} THEN <<>>
       ELSE LET m == CHOOSE m \in found : TRUE
            IN <<[user_id |-> m.user_id, revoked |-> m.revoked]>>

\* revoke_by_token: the row of the token gets revoked = True; no test of the
\* value it had
RevokeByToken(rows, token) ==
    {IF m.token = token THEN [m EXCEPT !.revoked = TRUE] ELSE m : m \in rows}

\* RefreshTokenRepository.create
Create(rows, user_id, token, expires_at) ==
    rows \cup {Row(token, user_id, FALSE, expires_at)}

\* the revoked flag of the token's row (FALSE when there is no row)
Revoked(rows, token) == \E m \in rows : m.token = token /\ m.revoked

\* what the requests leave alone
KeyVars ==
    <<backend, fsVars, env, keys, activeKid, now, nextGen, tokens, lastOp,
      wpc, pending, pre, post, obs, thr>>

\* refresh_tokens, lines 96-99
RefreshGet(r) ==
    LET pair == GetByToken(db.refresh_tokens, Presented, now)
    IN /\ req[r].pc = "idle"
       /\ req' = [req EXCEPT ![r] =
                     IF pair = <<>>
                     THEN [NotSent EXCEPT !.pc = "done", !.op = "refresh",
                                          !.status = "None"]
                     ELSE [NotSent EXCEPT !.pc = "user", !.op = "refresh",
                                          !.user_id = pair[1].user_id]]
       /\ UNCHANGED <<db, KeyVars>>

\* refresh_tokens, lines 101-105
RefreshUser(r) ==
    /\ req[r].pc = "user"
    /\ req' = [req EXCEPT ![r] =
                  IF req[r].user_id \in db.users
                  THEN [@ EXCEPT !.pc = "revoke"]
                  ELSE [@ EXCEPT !.pc = "done", !.status = "None"]]
    /\ UNCHANGED <<db, KeyVars>>

\* refresh_tokens, line 108: the presented token is revoked
RefreshRevoke(r) ==
    /\ req[r].pc = "revoke"
    /\ db' = [db EXCEPT !.refresh_tokens = RevokeByToken(@, Presented)]
    /\ req' = [req EXCEPT ![r].pc = "issue",
                          ![r].wrote = (db' # db)]
    /\ UNCHANGED KeyVars

\* refresh_tokens, lines 110-111: the access token is made by the key
\* manager the AuthService of this request has constructed; get_active_key
\* may raise
RefreshIssue(r) ==
    /\ req[r].pc = "issue"
    /\ \E d \in Loaded(backend, dirOrder, privFile, pubFile, pubCtime, env, now) :
           LET made == CreateToken(d, SelectActive(d, NoKid),
                                   [sub |-> req[r].user_id, type |-> "access"],
                                   MaxTtl, now, Utc)
           IN req' = [req EXCEPT ![r] =
                         IF made.status = "ok" THEN [@ EXCEPT !.pc = "create"]
                         ELSE [@ EXCEPT !.pc = "done", !.status = "raised"]]
    /\ UNCHANGED <<db, KeyVars>>

\* refresh_tokens, lines 112-123: the new refresh token is stored and the
\* pair is returned
RefreshCreate(r) ==
    /\ req[r].pc = "create"
    /\ db' = [db EXCEPT !.refresh_tokens =
                 Create(@, req[r].user_id, NewRefresh(r), ExpiresAt(now))]
    /\ req' = [req EXCEPT ![r].pc = "done", ![r].status = "pair",
                          ![r].wrote = TRUE]
    /\ UNCHANGED KeyVars

\* logout(refresh_token)
Logout(r) ==
    LET known == \E m \in db.refresh_tokens : m.token = Presented
    IN /\ req[r].pc = "idle"
       /\ db' = [db EXCEPT !.refresh_tokens = RevokeByToken(@, Presented)]
       /\ req' = [req EXCEPT ![r] =
                     [NotSent EXCEPT !.pc = "done", !.op = "logout",
                                     !.status = IF known THEN "True" ELSE "False",
                                     !.wrote = (db' # db)]]
       /\ UNCHANGED KeyVars

\* UserRepository.delete: the user goes, and with it its refresh tokens
DeleteUser ==
    /\ UserId \in db.users
    /\ db' = [users |-> db.users \ {UserId},
              refresh_tokens |-> {m \in db.refresh_tokens : m.user_id # UserId}]
    /\ UNCHANGED <<req, KeyVars>>

RefreshInit == \E database \in Databases : StartedOn(0, database)

RefreshNext ==
    \/ \E r \in Requests : RefreshGet(r)
    \/ \E r \in Requests : RefreshUser(r)
    \/ \E r \in Requests : RefreshRevoke(r)
    \/ \E r \in Requests : RefreshIssue(r)
    \/ \E r \in Requests : RefreshCreate(r)
    \/ \E r \in Requests : Logout(r)
    \/ DeleteUser

RefreshSpec == RefreshInit /\ [][RefreshNext]_vars

\* C24 (as claimed): of the refresh_tokens calls that present one refresh
\* token, beside each other and beside logout calls, at most one returns a
\* pair, and a call that starts when the token is revoked returns None.
C24_RedeemedAtMostOnce ==
    [][/\ Cardinality({r \in Requests : req'[r].status = "pair"}) <= 1
       /\ \A r \in Requests :
              (/\ req[r].pc = "idle"
               /\ req'[r].op = "refresh"
               /\ Revoked(db.refresh_tokens, Presented))
              => req'[r].status = "None"]_vars

FailsVerification(tok) ==
    \/ VerifyToken(tok, keys, now).status # "ok"
    \/ tok.payload["type"] # "access"

\* C17: whatever the reason a presented token fails for (malformed, bad
\* signature, expired, not yet valid, missing kid, unknown kid, a type other
\* than "access"), verify_access_token returns None and get_current_user
\* answers 401 with the one detail text "Invalid or expired token".
C17_FailuresIndistinguishable ==
    (lastOp.op = "get_current_user" /\ lastOp.status # "skipped"
     /\ FailsVerification(lastOp.tok))
    => /\ lastOp.status = "None"
       /\ lastOp.out = <<[status_code |-> 401,
                          detail |-> "Invalid or expired token"]>>

\* C17 witness: a correctly signed, valid token of type "refresh" has been
\* answered with that 401
C17_Witness ==
    /\ lastOp.op = "get_current_user"
    /\ VerifyToken(lastOp.tok, keys, now).status = "ok"
    /\ lastOp.tok.payload["type"] = "refresh"
    /\ lastOp.status = "None"
    /\ lastOp.out[1].status_code = 401

=============================================================================
